---- MODULE Spec2Model ----
(***************************************************************************)
(* A model of the golog logging library: the level registry, the text and  *)
(* JSON writers, the LogScope field accumulator and the package facade.    *)
(*                                                                         *)
(* Strings whose content matters (level names, messages, error texts) are  *)
(* sequences of tokens, so that upper-casing, printf substitution, error   *)
(* wrapping and substring tests are computed rather than assumed.          *)
(* Caller location and wall-clock time are left out of the records: they   *)
(* come from the runtime and no modelled operation branches on them.       *)
(***************************************************************************)
EXTENDS Integers, Sequences, FiniteSets, TLC

VARIABLES
    minLevel,   \* level.go: var minLevel
    instance,   \* log.go: var instance LogWriter (a writer id)
    enrichers,  \* log.go: var enrichers []Enricher (sequence of enricher ids)
    writers,    \* the writer objects, by id
    scopes,     \* the LogScope objects, by id (NoScope while not created)
    last,       \* what the most recent call did: its events and its result
    threads,    \* goroutines inside a writer's Write/Flush (concurrent runs)
    callerMap   \* a map a caller built, passed to WithFields and still holds

vars == <<minLevel, instance, enrichers, writers, scopes, last, threads, callerMap>>

(***************************************************************************)
(* Bounds                                                                  *)
(***************************************************************************)
MaxCode == 3        \* level codes tried: -MaxCode..MaxCode and 999
MaxScopes == 1      \* LogScope objects kept alive at once
MaxWrites == 2      \* records handed to the writers in one run
MaxEnrichers == 2   \* length of the global enricher chain
BufCap == 2         \* records the bufio buffer holds before it spills
MaxThreads == 2     \* goroutines sharing one writer
MaxCalls == 2       \* Write/Flush calls one goroutine makes
RecLen == 2         \* chunks of bytes in one record
MaxArgs == 4        \* arguments in one WithPairs call
Siblings == 2       \* LogScope objects alive at once in the sibling runs

(***************************************************************************)
(* Level registry (level.go)                                               *)
(***************************************************************************)
LevelDebug == 0
LevelInfo == 1
LevelError == 2

InvalidLevel == 0 - 1

Codes == ((0 - MaxCode)..MaxCode) \cup {999}

LowerChars == <<"d", "e", "b", "u", "g", "i", "n", "f", "o", "r", "s", "k", "w">>
UpperChars == <<"D", "E", "B", "U", "G", "I", "N", "F", "O", "R", "S", "K", "W">>

\* strings.ToUpper on one character
ToUpperChar(c) ==
    IF \E i \in 1..Len(LowerChars) : LowerChars[i] = c
    THEN UpperChars[CHOOSE i \in 1..Len(LowerChars) : LowerChars[i] = c]
    ELSE c

\* strings.ToUpper
ToUpper(s) == [i \in 1..Len(s) |-> ToUpperChar(s[i])]

levelNames ==
    (0 :> <<"D", "E", "B", "U", "G">>) @@
    (1 :> <<"I", "N", "F", "O">>) @@
    (2 :> <<"E", "R", "R", "O", "R">>)

levelValues ==
    (<<"D", "E", "B", "U", "G">> :> 0) @@
    (<<"I", "N", "F", "O">> :> 1) @@
    (<<"E", "R", "R", "O", "R">> :> 2)

Unknown == <<"U", "N", "K", "N", "O", "W", "N">>

\* a lookup that forgets to upper-case its input
ParseLevelCaseSensitive(level) ==
    IF level \in DOMAIN levelValues THEN levelValues[level] ELSE InvalidLevel

ParseLevel(level) ==
    LET upperLevel == ToUpper(level)
    IN IF upperLevel \in DOMAIN levelValues THEN levelValues[upperLevel] ELSE InvalidLevel

\* a lookup that names every code above ERROR as ERROR
LevelStringClamped(level) ==
    IF level \in DOMAIN levelNames THEN levelNames[level]
    ELSE IF level > LevelError THEN levelNames[LevelError] ELSE Unknown

LevelString(level) ==
    IF level \in DOMAIN levelNames THEN levelNames[level] ELSE Unknown

\* a SetLevel that accepts every non-negative code
SetLevelResultAnyCode(cur, level) ==
    IF level >= 0 THEN level ELSE cur

\* a SetLevel that checks the upper end of the codes only
SetLevelResultUpTo(cur, level) ==
    IF level <= LevelError THEN level ELSE cur

\* the value SetLevel leaves in minLevel
SetLevelResult(cur, level) ==
    IF level \in DOMAIN levelNames THEN level ELSE cur

\* a shouldLog without the lookup in levelNames
shouldLogAtUnchecked(cur, level) == level >= cur

shouldLogAt(cur, level) ==
    IF level \notin DOMAIN levelNames THEN FALSE ELSE level >= cur

shouldLog(level) == shouldLogAt(minLevel, level)

(***************************************************************************)
(* The record of the most recent call                                      *)
(***************************************************************************)
NoScopeId == 0

\* the slot of a scope that was not created
NoScope == [writer |-> "none", enrichers |-> <<>>, fields |-> <<>>, ctx |-> "none",
            werr |-> <<>>]

\* no map is held
NoMap == [kept |-> FALSE, m |-> <<>>]

\* no record
NoRecord == [id |-> 0, kind |-> "none", level |-> <<>>, msg |-> <<>>, fields |-> <<>>]

\* op: the call; scope, level, format, args, code, name: its receiver and arguments
\* (args holds the arguments after the format of Debug/Info/Error, and all the
\* arguments of the other calls); events: the Enrich, Write and Flush calls it made,
\* in order; panicked: it aborted; rec: the record it produced; ret*: its result
NoCall ==
    [op |-> "none", facade |-> FALSE, scope |-> NoScopeId, level |-> 0, format |-> <<>>, args |-> <<>>,
     code |-> 0, name |-> <<>>,
     events |-> <<>>, panicked |-> FALSE, rec |-> NoRecord,
     retBool |-> FALSE, retInt |-> 0, retStr |-> <<>>, retErr |-> [isNil |-> TRUE, msg |-> <<>>]]

(***************************************************************************)
(* Inputs of the level functions                                           *)
(***************************************************************************)
LevelWords ==
    {<<"d", "e", "b", "u", "g">>, <<"i", "n", "f", "o">>, <<"e", "r", "r", "o", "r">>,
     <<"b", "o", "g", "u", "s">>, <<>>, <<"d", "e", "b", "u">>, <<"i", "n", "f", "o", "s">>,
     <<"u", "n", "k", "n", "o", "w", "n">>, <<"w", "a", "r", "n">>,
     <<"1">>, <<"i", "n", "f", "o", " ">>}

\* every upper/lower-case spelling of w
CaseVariants(w) ==
    {[i \in 1..Len(w) |-> IF i \in U THEN ToUpperChar(w[i]) ELSE w[i]] :
        U \in SUBSET (1..Len(w))}

LevelInputs == UNION {CaseVariants(w) : w \in LevelWords}

(***************************************************************************)
(* Strings, printf formatting and errors                                   *)
(***************************************************************************)
\* fmt.Sprintf(format, args...) over token sequences: "%s" takes the next argument
RECURSIVE Sprintf(_, _)
Sprintf(format, args) ==
    IF format = <<>>
    THEN IF args = <<>> THEN <<>> ELSE <<"%!(EXTRA">> \o Head(args) \o <<")">>
    ELSE IF Head(format) = "%s"
         THEN IF args = <<>>
              THEN <<"%!s(MISSING)">> \o Sprintf(Tail(format), <<>>)
              ELSE Head(args) \o Sprintf(Tail(format), Tail(args))
         ELSE <<Head(format)>> \o Sprintf(Tail(format), args)

\* strings.Contains
Contains(s, sub) ==
    \E i \in 0..(Len(s) - Len(sub)) : SubSeq(s, i + 1, i + Len(sub)) = sub

\* an error value: nil or a message
NilError == [isNil |-> TRUE, msg |-> <<>>]

\* errors.New(message)
ErrorsNew(message) == [isNil |-> FALSE, msg |-> message]

\* errors.Wrap(err, message): nil for a nil err, otherwise "message: err"
ErrorsWrap(err, message) ==
    IF err.isNil THEN NilError
    ELSE [isNil |-> FALSE, msg |-> message \o <<":">> \o err.msg]

(***************************************************************************)
(* Field values: a Go dynamic type and the text the renderers read         *)
(***************************************************************************)
Val(t, v) == [t |-> t, v |-> v]

UnsupportedTypes == {"chan", "func", "complex64", "complex128"}

\* what sonic.Marshal says of one value: FALSE is a marshal error
Marshalable(value) == value.t \notin UnsupportedTypes

\* defaultWriter.reflectToString
reflectToString(value) ==
    IF ~Marshalable(value)
    THEN [panic |-> TRUE, s |-> <<>>]
    ELSE [panic |-> FALSE, s |-> <<"json(">> \o value.v \o <<")">>]

\* defaultWriter.valToString
valToString(value) ==
    CASE value.t \in {"string", "bool", "int", "float64", "time"} ->
            [panic |-> FALSE, s |-> value.v]
      [] value.t \in {"complex64", "complex128"} -> [panic |-> TRUE, s |-> <<>>]
      [] value.t = "error" -> [panic |-> FALSE, s |-> value.v]
      [] OTHER -> reflectToString(value)

\* defaultWriter.fieldsToString: key="value" pairs; the map's iteration order is
\* unspecified, so the rendering is kept per key
fieldsToString(fields) ==
    [panic |-> \E k \in DOMAIN fields : valToString(fields[k]).panic,
     s |-> [k \in DOMAIN fields |-> valToString(fields[k]).s]]

(***************************************************************************)
(* Writers (defaultwriter.go, jsonwriter.go) over a bufio.Writer           *)
(*                                                                         *)
(* A writer is [kind, hasBuf, buf, sink, closer, closed, err, n]: buf is   *)
(* the bufio buffer (nil when hasBuf is false), sink what the io.Writer    *)
(* has received, closer whether the sink is an io.Closer, closed whether   *)
(* Close was called on it, err bufio's sticky write error, and n the       *)
(* number of records handed to bufio.  The buffer is counted in records;   *)
(* buf and sink keep each record's serial number and format, and the call  *)
(* record keeps the full content of the record the call produced.          *)
(***************************************************************************)
NewWriter(kind, closer) ==
    [kind |-> kind, hasBuf |-> TRUE, buf |-> <<>>, sink |-> <<>>,
     closer |-> closer, closed |-> FALSE, err |-> FALSE, n |-> 0]

\* log.go: instance = &defaultWriter{output: os.Stdout}: no buffer; stdout is a file
StdWriter == [NewWriter("text", TRUE) EXCEPT !.hasBuf = FALSE]

\* bufio.Writer.Flush
BufFlush(wr) ==
    IF wr.err \/ wr.buf = <<>> THEN wr
    ELSE IF wr.closed THEN [wr EXCEPT !.err = TRUE]
    ELSE [wr EXCEPT !.sink = @ \o wr.buf, !.buf = <<>>]

\* the line a record leaves in the buffer: its serial number and format
Line(rec) == [id |-> rec.id, kind |-> rec.kind]

\* bufio.Writer.Write of one record: a full buffer is flushed first
BufWrite(wr, rec) ==
    IF wr.err THEN [wr EXCEPT !.n = @ + 1]
    ELSE IF Len(wr.buf) < BufCap THEN [wr EXCEPT !.buf = Append(@, Line(rec)), !.n = @ + 1]
    ELSE LET flushed == BufFlush(wr)
         IN IF flushed.err THEN [flushed EXCEPT !.n = @ + 1]
            ELSE [flushed EXCEPT !.buf = <<Line(rec)>>, !.n = @ + 1]

\* a Write that renders into the buffer field by field, so that an abort leaves a
\* part of the record behind
defaultWriterWritePartial(wr, level, msg, fields) ==
    LET rendered == fieldsToString(fields)
        rec == [id |-> wr.n + 1, kind |-> "text", level |-> LevelString(level),
                msg |-> msg, fields |-> rendered.s]
    IN IF ~wr.hasBuf THEN [panic |-> TRUE, wr |-> wr, rec |-> NoRecord]
       ELSE IF rendered.panic THEN [panic |-> TRUE, wr |-> BufWrite(wr, rec), rec |-> NoRecord]
       ELSE [panic |-> FALSE, wr |-> BufWrite(wr, rec), rec |-> rec]

\* defaultWriter.Write: the arguments of Fprintf are evaluated before it writes
defaultWriterWrite(wr, level, msg, fields) ==
    LET rendered == fieldsToString(fields)
        rec == [id |-> wr.n + 1, kind |-> "text", level |-> LevelString(level),
                msg |-> msg, fields |-> rendered.s]
    IN IF rendered.panic \/ ~wr.hasBuf
       THEN [panic |-> TRUE, wr |-> wr, rec |-> NoRecord]
       ELSE [panic |-> FALSE, wr |-> BufWrite(wr, rec), rec |-> rec]

FieldTime == "time"
FieldLevel == "level"
FieldMessage == "msg"
FieldCaller == "caller"

\* jsonWriter.Write, the entry map: the reserved keys, then every field over them
jsonEntry(level, msg, fields) ==
    [k \in DOMAIN fields |->
        IF fields[k].t = "error" THEN Val("string", fields[k].v) ELSE fields[k]]
    @@ (FieldTime :> Val("string", <<"now">>))
    @@ (FieldLevel :> Val("string", LevelString(level)))
    @@ (FieldMessage :> Val("string", msg))
    @@ (FieldCaller :> Val("string", <<"file:line">>))

\* sonic.Marshal(entry) succeeds
MarshalOk(entry) == \A k \in DOMAIN entry : Marshalable(entry[k])

\* jsonWriter.Write
jsonWriterWrite(wr, level, msg, fields) ==
    LET entry == jsonEntry(level, msg, fields)
        rec == [id |-> wr.n + 1, kind |-> "json", level |-> entry[FieldLevel].v,
                msg |-> entry[FieldMessage].v, fields |-> entry]
    IN IF ~MarshalOk(entry)
       THEN [panic |-> TRUE, wr |-> wr, rec |-> NoRecord]
       ELSE [panic |-> FALSE, wr |-> BufWrite(wr, rec), rec |-> rec]

\* LogWriter.Write, by the writer's dynamic type
WriterWrite(wr, level, msg, fields) ==
    IF wr.kind = "text" THEN defaultWriterWrite(wr, level, msg, fields)
    ELSE jsonWriterWrite(wr, level, msg, fields)

\* defaultWriter.Flush and jsonWriter.Flush
WriterFlush(wr) ==
    IF ~wr.hasBuf THEN [panic |-> TRUE, wr |-> wr]
    ELSE LET flushed == BufFlush(wr)
         IN [panic |-> FALSE,
             wr |-> IF wr.closer THEN [flushed EXCEPT !.closed = TRUE] ELSE flushed]

(***************************************************************************)
(* Enrichers (enricher.go).  An enricher is user code; two stand for it:   *)
(*   "ctxid"  stores the context's name under "k",                         *)
(*   "cause"  stores an error value under "error".                         *)
(***************************************************************************)
EnricherIds == {"ctxid", "cause"}

CauseText == <<"cause">>

\* Enricher.Enrich(ctx, level, msg, fields): the field set it leaves
Enrich(e, ctx, lname, msg, fields) ==
    CASE e = "ctxid" -> ("k" :> Val("string", <<ctx>>)) @@ fields
      [] OTHER -> ("error" :> Val("error", CauseText)) @@ fields

Event(ev, who, level, lname, msg, ctx, fields) ==
    [ev |-> ev, who |-> who, level |-> level, lname |-> lname, msg |-> msg,
     ctx |-> ctx, fields |-> fields]

\* a loop over l.enrichers from the last to the first
RECURSIVE ApplyEnrichersBackwards(_, _, _, _, _)
ApplyEnrichersBackwards(es, ctx, lname, msg, fields) ==
    IF es = <<>> THEN [fields |-> fields, events |-> <<>>]
    ELSE LET e == es[Len(es)]
             rest == ApplyEnrichersBackwards(SubSeq(es, 1, Len(es) - 1), ctx, lname, msg,
                                             Enrich(e, ctx, lname, msg, fields))
         IN [fields |-> rest.fields,
             events |-> <<Event("enrich", e, 0, lname, msg, ctx, fields)>> \o rest.events]

\* the loop over l.enrichers in LogScope.write: the fields and the calls made
RECURSIVE ApplyEnrichers(_, _, _, _, _)
ApplyEnrichers(es, ctx, lname, msg, fields) ==
    IF es = <<>> THEN [fields |-> fields, events |-> <<>>]
    ELSE LET rest == ApplyEnrichers(Tail(es), ctx, lname, msg,
                                    Enrich(Head(es), ctx, lname, msg, fields))
         IN [fields |-> rest.fields,
             events |-> <<Event("enrich", Head(es), 0, lname, msg, ctx, fields)>>
                        \o rest.events]

(***************************************************************************)
(* LogScope (logscope.go).  A scope is [writer, enrichers, fields, ctx];   *)
(* werr is history: the text of the error last given to WithError.         *)
(***************************************************************************)
\* a newScope that binds the writer the package started with
newScopeInitialWriter ==
    [writer |-> "std", enrichers |-> <<>>, fields |-> <<>>, ctx |-> "bg", werr |-> <<>>]

\* newScope()
newScope == [writer |-> instance, enrichers |-> <<>>, fields |-> <<>>, ctx |-> "bg",
             werr |-> <<>>]

\* LogScope.With
LogScopeWith(sc, key, value) == [sc EXCEPT !.fields = (key :> value) @@ @]

\* a WithFields that keeps the value a key already has
LogScopeWithFieldsKeepOld(sc, fields) == [sc EXCEPT !.fields = @ @@ fields]

\* LogScope.WithFields
LogScopeWithFields(sc, fields) == [sc EXCEPT !.fields = fields @@ @]

\* LogScope.WithError: the error's message text, as a string
LogScopeWithError(sc, err) ==
    [sc EXCEPT !.fields = ("error" :> Val("string", err.msg)) @@ @, !.werr = err.msg]

\* LogScope.WithContext
LogScopeWithContext(sc, ctx) == [sc EXCEPT !.ctx = ctx]

\* a write that runs the enrichers before it looks at the level
ScopeWriteEnrichFirst(sc, wrs, level, format, args) ==
    LET msg == Sprintf(format, args)
        enriched == ApplyEnrichers(sc.enrichers, sc.ctx, LevelString(level), msg, sc.fields)
        written == WriterWrite(wrs[sc.writer], level, msg, enriched.fields)
    IN IF ~shouldLog(level)
       THEN [scope |-> [sc EXCEPT !.fields = enriched.fields], writers |-> wrs,
             events |-> enriched.events, panicked |-> FALSE, rec |-> NoRecord]
       ELSE [scope |-> [sc EXCEPT !.fields = enriched.fields],
             writers |-> [wrs EXCEPT ![sc.writer] = written.wr],
             events |-> enriched.events
                        \o <<Event("write", sc.writer, level, <<>>, msg, sc.ctx,
                                   enriched.fields)>>,
             panicked |-> written.panic, rec |-> written.rec]

\* a single-shot write: the scope's fields are dropped once they were written
ScopeWriteSingleShot(sc, wrs, level, format, args) ==
    IF ~shouldLog(level)
    THEN [scope |-> sc, writers |-> wrs, events |-> <<>>, panicked |-> FALSE,
          rec |-> NoRecord]
    ELSE LET msg == Sprintf(format, args)
             enriched == ApplyEnrichers(sc.enrichers, sc.ctx, LevelString(level), msg,
                                        sc.fields)
             written == WriterWrite(wrs[sc.writer], level, msg, enriched.fields)
         IN [scope |-> [sc EXCEPT !.fields = <<>>],
             writers |-> [wrs EXCEPT ![sc.writer] = written.wr],
             events |-> enriched.events
                        \o <<Event("write", sc.writer, level, <<>>, msg, sc.ctx,
                                   enriched.fields)>>,
             panicked |-> written.panic, rec |-> written.rec]

\* a write whose enrichers work on a copy of the fields made for the emission
ScopeWriteOnCopy(sc, wrs, level, format, args) ==
    IF ~shouldLog(level)
    THEN [scope |-> sc, writers |-> wrs, events |-> <<>>, panicked |-> FALSE,
          rec |-> NoRecord]
    ELSE LET msg == Sprintf(format, args)
             enriched == ApplyEnrichers(sc.enrichers, sc.ctx, LevelString(level), msg,
                                        sc.fields)
             written == WriterWrite(wrs[sc.writer], level, msg, enriched.fields)
         IN [scope |-> sc,
             writers |-> [wrs EXCEPT ![sc.writer] = written.wr],
             events |-> enriched.events
                        \o <<Event("write", sc.writer, level, <<>>, msg, sc.ctx,
                                   enriched.fields)>>,
             panicked |-> written.panic, rec |-> written.rec]

\* LogScope.write: the scope and the writers it leaves, the calls it made, and
\* whether the writer aborted
ScopeWrite(sc, wrs, level, format, args) ==
    IF ~shouldLog(level)
    THEN [scope |-> sc, writers |-> wrs, events |-> <<>>, panicked |-> FALSE,
          rec |-> NoRecord]
    ELSE LET msg == Sprintf(format, args)
             enriched == ApplyEnrichers(sc.enrichers, sc.ctx, LevelString(level), msg,
                                        sc.fields)
             written == WriterWrite(wrs[sc.writer], level, msg, enriched.fields)
         IN [scope |-> [sc EXCEPT !.fields = enriched.fields],
             writers |-> [wrs EXCEPT ![sc.writer] = written.wr],
             events |-> enriched.events
                        \o <<Event("write", sc.writer, level, <<>>, msg, sc.ctx,
                                   enriched.fields)>>,
             panicked |-> written.panic,
             rec |-> written.rec]

\* the string of a key argument, as a map key
KeyOf(arg) == arg.v[1]

\* the loop of WithPairs over (key, value) positions: an earlier key wins
RECURSIVE PairsFirstWins(_)
PairsFirstWins(args) ==
    IF args = <<>> THEN [panic |-> FALSE, fields |-> <<>>]
    ELSE IF Head(args).t # "string" THEN [panic |-> TRUE, fields |-> <<>>]
    ELSE LET rest == PairsFirstWins(Tail(Tail(args)))
         IN [panic |-> rest.panic,
             fields |-> IF rest.panic THEN <<>>
                        ELSE (KeyOf(args[1]) :> args[2]) @@ rest.fields]

\* the loop of WithPairs over (key, value) positions: pairs[key] = args[i+1], and an
\* abort at the first key that is not a string
RECURSIVE Pairs2Map(_)
Pairs2Map(args) ==
    IF args = <<>> THEN [panic |-> FALSE, fields |-> <<>>]
    ELSE IF Head(args).t # "string" THEN [panic |-> TRUE, fields |-> <<>>]
    ELSE LET rest == Pairs2Map(Tail(Tail(args)))
         IN [panic |-> rest.panic,
             fields |-> IF rest.panic THEN <<>>
                        ELSE rest.fields @@ (KeyOf(args[1]) :> args[2])]

\* WithPairs before its WithFields: the abort on an odd count, then the loop
WithPairsResult(args) ==
    IF Len(args) % 2 # 0 THEN [panic |-> TRUE, fields |-> <<>>] ELSE Pairs2Map(args)

\* an Error that builds its error from the format, without the arguments
ErrorResultUnformatted(fields, format, args) ==
    IF "error" \in DOMAIN fields /\ fields["error"].t # "nil" /\ fields["error"].t = "error"
    THEN ErrorsWrap(ErrorsNew(fields["error"].v), format)
    ELSE ErrorsNew(format)

\* LogScope.Error, after its write: the error it returns
ErrorResult(fields, format, args) ==
    IF "error" \in DOMAIN fields /\ fields["error"].t # "nil" /\ fields["error"].t = "error"
    THEN ErrorsWrap(ErrorsNew(fields["error"].v), Sprintf(format, args))
    ELSE ErrorsNew(Sprintf(format, args))

(***************************************************************************)
(* Inputs                                                                  *)
(***************************************************************************)
ScopeIds == 1..MaxScopes
WriterIds == {"std", "wt", "wj"}
Ctxs == {"bg", "req"}
Levels == {LevelDebug, LevelInfo, LevelError}

\* (key, value) pairs given to With: a string, and an error value under "error"
Pairs == {<<"k", Val("string", <<"x">>)>>, <<"error", Val("error", <<"io">>)>>}

\* field maps given to WithFields
FieldMaps ==
    {<<>>,
     ("k" :> Val("string", <<"x">>)),
     ("k" :> Val("string", <<"x">>)) @@ ("error" :> Val("error", <<"io">>))}

\* errors given to WithError
Errors == {ErrorsNew(<<"boom">>)}

\* (format, args) pairs given to Debug/Info/Error
Messages ==
    {[format |-> <<"failed">>, args |-> <<>>],
     [format |-> <<"failed:", "%s">>, args |-> <<<<"bad", "input">>>>]}

\* argument lists given to WithPairs in the facade runs: a well-formed one, one of odd
\* length and one with a key that is not a string
PairLists ==
    {<<Val("string", <<"k">>), Val("string", <<"x">>)>>,
     <<Val("string", <<"k">>)>>,
     <<Val("int", <<"7">>), Val("string", <<"x">>)>>}

\* the well-formed ones
GoodPairLists == {args \in PairLists : ~WithPairsResult(args).panic}

\* a message without arguments
Plain == [format |-> <<"failed">>, args |-> <<>>]

\* enricher lists a scope is built with inside the package
EnricherLists == {<<"ctxid", "cause">>}

Live(s) == scopes[s] # NoScope

\* the first free slot, for a scope a facade constructor returns
FreeSlot == CHOOSE s \in DOMAIN scopes : ~Live(s) /\ \A t \in DOMAIN scopes : t < s => Live(t)

HasFree == \E s \in DOMAIN scopes : ~Live(s)

(***************************************************************************)
(* The program: facade calls (log.go) and scope methods (logscope.go)      *)
(***************************************************************************)
Init ==
    /\ minLevel = LevelInfo
    /\ instance = "std"
    /\ enrichers = <<>>
    /\ writers = ("std" :> StdWriter) @@ ("wt" :> NewWriter("text", FALSE))
                 @@ ("wj" :> NewWriter("json", FALSE))
    /\ scopes = [s \in ScopeIds |-> NoScope]
    /\ last = NoCall
    /\ callerMap = NoMap
    /\ threads = <<>>

\* records handed to the writers so far
Written == writers["std"].n + writers["wt"].n + writers["wj"].n

\* Debug/Info/Error on the scope sc, kept in slot s (NoScopeId: a temporary of the facade)
Emit(op, s, sc, level, m) ==
    /\ Written < MaxWrites
    /\ LET r == ScopeWrite(sc, writers, level, m.format, m.args)
       IN /\ scopes' = IF s = NoScopeId THEN scopes ELSE [scopes EXCEPT ![s] = r.scope]
          /\ writers' = r.writers
          /\ last' = [NoCall EXCEPT !.op = op, !.facade = (s = NoScopeId), !.scope = s,
                        !.level = level, !.format = m.format, !.args = m.args,
                        !.events = r.events,
                        !.panicked = r.panicked, !.rec = r.rec,
                        !.retErr = IF op = "Error" /\ ~r.panicked
                                   THEN ErrorResult(r.scope.fields, m.format, m.args)
                                   ELSE NilError]
    /\ UNCHANGED <<minLevel, instance, enrichers, threads, callerMap>>

\* With* methods over one field map that every scope shares
ChainSharedMap(op, fromFacade, s, sc, after, args) ==
    /\ scopes' = [t \in DOMAIN scopes |->
                     IF t = s THEN after
                     ELSE IF scopes[t] = NoScope THEN NoScope
                     ELSE [scopes[t] EXCEPT !.fields = after.fields]]
    /\ last' = [NoCall EXCEPT !.op = op, !.facade = fromFacade, !.scope = s, !.args = args]
    /\ UNCHANGED <<minLevel, instance, enrichers, writers, threads>>

\* a With* method on the live scope s, or on a new scope for the facade function
Chain(op, fromFacade, s, sc, after, args) ==
    /\ scopes' = [scopes EXCEPT ![s] = after]
    /\ last' = [NoCall EXCEPT !.op = op, !.facade = fromFacade, !.scope = s, !.args = args]
    /\ UNCHANGED <<minLevel, instance, enrichers, writers, threads>>

FlushOf(fromFacade, s, w) ==
    /\ LET r == WriterFlush(writers[w])
       IN /\ writers' = [writers EXCEPT ![w] = r.wr]
          /\ last' = [NoCall EXCEPT !.op = "Flush", !.facade = fromFacade, !.scope = s,
                        !.events = <<Event("flush", w, 0, <<>>, <<>>, "none", <<>>)>>,
                        !.panicked = r.panic]
    /\ UNCHANGED <<minLevel, instance, enrichers, scopes, threads, callerMap>>

ScopeDebug(s, m) == Live(s) /\ Emit("Debug", s, scopes[s], LevelDebug, m)
ScopeInfo(s, m) == Live(s) /\ Emit("Info", s, scopes[s], LevelInfo, m)
ScopeError(s, m) == Live(s) /\ Emit("Error", s, scopes[s], LevelError, m)
ScopeWith(s, k, v) ==
    /\ Live(s)
    /\ Chain("With", FALSE, s, scopes[s], LogScopeWith(scopes[s], k, v), <<k, v>>)
    /\ UNCHANGED callerMap
ScopeWithFields(s, f) ==
    /\ Live(s)
    /\ Chain("WithFields", FALSE, s, scopes[s], LogScopeWithFields(scopes[s], f), <<f>>)
    /\ UNCHANGED callerMap
ScopeWithError(s, e) ==
    /\ Live(s)
    /\ Chain("WithError", FALSE, s, scopes[s], LogScopeWithError(scopes[s], e), <<e>>)
    /\ UNCHANGED callerMap
ScopeWithContext(s, c) ==
    /\ Live(s)
    /\ Chain("WithContext", FALSE, s, scopes[s], LogScopeWithContext(scopes[s], c), <<c>>)
    /\ UNCHANGED callerMap
ScopeFlush(s) == Live(s) /\ FlushOf(FALSE, s, scopes[s].writer)

Debug(m) == Emit("Debug", NoScopeId, newScope, LevelDebug, m)
Info(m) == Emit("Info", NoScopeId, newScope, LevelInfo, m)
Error(m) == Emit("Error", NoScopeId, newScope, LevelError, m)
With(k, v) ==
    /\ HasFree
    /\ Chain("With", TRUE, FreeSlot, newScope, LogScopeWith(newScope, k, v), <<k, v>>)
    /\ UNCHANGED callerMap
WithFields(f) ==
    /\ HasFree
    /\ Chain("WithFields", TRUE, FreeSlot, newScope, LogScopeWithFields(newScope, f), <<f>>)
    /\ UNCHANGED callerMap
WithError(e) ==
    /\ HasFree
    /\ Chain("WithError", TRUE, FreeSlot, newScope, LogScopeWithError(newScope, e), <<e>>)
    /\ UNCHANGED callerMap
WithContext(c) ==
    /\ HasFree
    /\ Chain("WithContext", TRUE, FreeSlot, newScope, LogScopeWithContext(newScope, c), <<c>>)
    /\ UNCHANGED callerMap
Flush == FlushOf(TRUE, NoScopeId, instance)

\* WithPairs(args...): it aborts on a malformed list, otherwise it is WithFields(pairs)
WithPairs(args) ==
    LET r == WithPairsResult(args)
    IN IF r.panic
       THEN /\ last' = [NoCall EXCEPT !.op = "WithPairs", !.facade = TRUE, !.args = args,
                                      !.panicked = TRUE]
            /\ UNCHANGED <<minLevel, instance, enrichers, writers, scopes, threads, callerMap>>
       ELSE /\ HasFree
            /\ Chain("WithPairs", TRUE, FreeSlot, newScope,
                     LogScopeWithFields(newScope, r.fields), args)
            /\ UNCHANGED callerMap

\* &LogScope{writer: instance, enrichers: es, ...}: a scope built inside the package
NewScopeWithEnrichers(es) ==
    /\ HasFree
    /\ Chain("new", TRUE, FreeSlot, newScope, [newScope EXCEPT !.enrichers = es], <<es>>)
    /\ UNCHANGED callerMap

\* a SetWriter that also rebinds the scopes already created
SetWriterRebinding(w) ==
    /\ instance' = w
    /\ scopes' = [s \in DOMAIN scopes |->
                     IF scopes[s] = NoScope THEN NoScope ELSE [scopes[s] EXCEPT !.writer = w]]
    /\ last' = [NoCall EXCEPT !.op = "SetWriter", !.facade = TRUE, !.args = <<w>>]
    /\ UNCHANGED <<minLevel, enrichers, writers, threads, callerMap>>

SetWriter(w) ==
    /\ instance' = w
    /\ last' = [NoCall EXCEPT !.op = "SetWriter", !.facade = TRUE, !.args = <<w>>]
    /\ UNCHANGED <<minLevel, enrichers, writers, scopes, threads, callerMap>>

RegisterEnricher(e) ==
    /\ Len(enrichers) < MaxEnrichers
    /\ enrichers' = Append(enrichers, e)
    /\ last' = [NoCall EXCEPT !.op = "RegisterEnricher", !.facade = TRUE]
    /\ UNCHANGED <<minLevel, instance, writers, scopes, threads, callerMap>>

SetLevel(level) ==
    /\ minLevel' = SetLevelResult(minLevel, level)
    /\ last' = [NoCall EXCEPT !.op = "SetLevel", !.facade = TRUE, !.code = level]
    /\ UNCHANGED <<instance, enrichers, writers, scopes, threads, callerMap>>

Next ==
    \/ \E s \in ScopeIds, m \in Messages : ScopeDebug(s, m)
    \/ \E s \in ScopeIds, m \in Messages : ScopeInfo(s, m)
    \/ \E s \in ScopeIds, m \in Messages : ScopeError(s, m)
    \/ \E s \in ScopeIds, kv \in Pairs : ScopeWith(s, kv[1], kv[2])
    \/ \E s \in ScopeIds, f \in FieldMaps : ScopeWithFields(s, f)
    \/ \E s \in ScopeIds, e \in Errors : ScopeWithError(s, e)
    \/ \E s \in ScopeIds, c \in Ctxs : ScopeWithContext(s, c)
    \/ \E s \in ScopeIds : ScopeFlush(s)
    \/ \E m \in Messages : Debug(m)
    \/ \E m \in Messages : Info(m)
    \/ \E m \in Messages : Error(m)
    \/ \E kv \in Pairs : With(kv[1], kv[2])
    \/ \E f \in FieldMaps : WithFields(f)
    \/ \E e \in Errors : WithError(e)
    \/ \E c \in Ctxs : WithContext(c)
    \/ \E args \in GoodPairLists : WithPairs(args)
    \/ Flush
    \/ \E es \in EnricherLists : NewScopeWithEnrichers(es)
    \/ \E w \in {"wt", "wj"} : SetWriter(w)
    \/ \E level \in Levels \cup {999} : SetLevel(level)

Spec == Init /\ [][Next]_vars

(***************************************************************************)
(* Facade runs: the writer is replaced between calls of the facade, and    *)
(* the scopes the facade returned emit and flush                           *)
(***************************************************************************)
NextFacade ==
    \/ \E w \in {"wt", "wj"} : SetWriter(w)
    \/ \E kv \in Pairs : With(kv[1], kv[2])
    \/ \E f \in FieldMaps : WithFields(f)
    \/ \E args \in PairLists : WithPairs(args)
    \/ \E c \in Ctxs : WithContext(c)
    \/ \E e \in Errors : WithError(e)
    \/ Debug(Plain)
    \/ Info(Plain)
    \/ Error(Plain)
    \/ Flush
    \/ \E s \in ScopeIds : ScopeInfo(s, Plain)
    \/ \E s \in ScopeIds : ScopeFlush(s)

SpecFacade == Init /\ [][NextFacade]_vars

(***************************************************************************)
(* Chaining runs: the With* functions of the facade and the With* methods  *)
(* of the scopes they return, without emissions                            *)
(***************************************************************************)
NextChain ==
    \/ \E w \in {"wt", "wj"} : SetWriter(w)
    \/ \E kv \in Pairs : With(kv[1], kv[2])
    \/ \E f \in FieldMaps : WithFields(f)
    \/ \E e \in Errors : WithError(e)
    \/ \E c \in Ctxs : WithContext(c)
    \/ \E s \in ScopeIds, kv \in Pairs : ScopeWith(s, kv[1], kv[2])
    \/ \E s \in ScopeIds, f \in FieldMaps : ScopeWithFields(s, f)
    \/ \E s \in ScopeIds, e \in Errors : ScopeWithError(s, e)
    \/ \E s \in ScopeIds, c \in Ctxs : ScopeWithContext(s, c)

SpecChain == Init /\ [][NextChain]_vars

(***************************************************************************)
(* Enricher runs: scopes built with enrichers emit, over the text writer   *)
(* of the sibling runs                                                     *)
(***************************************************************************)
InitEnrich ==
    /\ minLevel = LevelInfo
    /\ instance = "wt"
    /\ enrichers = <<>>
    /\ writers = ("std" :> StdWriter) @@ ("wt" :> NewWriter("text", FALSE))
                 @@ ("wj" :> NewWriter("json", FALSE))
    /\ scopes = [s \in ScopeIds |-> NoScope]
    /\ last = NoCall
    /\ callerMap = NoMap
    /\ threads = <<>>

NextEnrich ==
    \/ \E es \in EnricherLists : NewScopeWithEnrichers(es)
    \/ \E kv \in Pairs : With(kv[1], kv[2])
    \/ \E s \in ScopeIds, kv \in Pairs : ScopeWith(s, kv[1], kv[2])
    \/ \E s \in ScopeIds, c \in Ctxs : ScopeWithContext(s, c)
    \/ \E s \in ScopeIds, m \in Messages : ScopeDebug(s, m)
    \/ \E s \in ScopeIds, m \in Messages : ScopeInfo(s, m)
    \/ \E s \in ScopeIds, m \in Messages : ScopeError(s, m)
    \/ \E level \in Levels : SetLevel(level)

SpecEnrich == InitEnrich /\ [][NextEnrich]_vars

(***************************************************************************)
(* Filter runs: SetLevel is given every code, and Error is called on the   *)
(* facade and on a scope                                                   *)
(***************************************************************************)
NextFilter ==
    \/ \E level \in Codes : SetLevel(level)
    \/ \E w \in {"wt", "wj"} : SetWriter(w)
    \/ \E kv \in Pairs : With(kv[1], kv[2])
    \/ \E m \in Messages : Error(m)
    \/ \E s \in ScopeIds, m \in Messages : ScopeError(s, m)

SpecFilter == Init /\ [][NextFilter]_vars

(***************************************************************************)
(* Registry runs: enrichers are registered with the package, and the       *)
(* facade and a scope emit                                                 *)
(***************************************************************************)
NextRegistry ==
    \/ \E e \in EnricherIds : RegisterEnricher(e)
    \/ \E w \in {"wt", "wj"} : SetWriter(w)
    \/ \E level \in Levels : SetLevel(level)
    \/ \E kv \in Pairs : With(kv[1], kv[2])
    \/ \E m \in Messages : Info(m)
    \/ \E m \in Messages : Error(m)
    \/ \E s \in ScopeIds, m \in Messages : ScopeInfo(s, m)

SpecRegistry == Init /\ [][NextRegistry]_vars

(***************************************************************************)
(* Sibling runs: several scopes made by the facade constructors, over a    *)
(* text writer installed with SetWriter at start-up.  The caller of        *)
(* WithFields builds its map, keeps it, and passes it.                     *)
(***************************************************************************)
InitSiblings ==
    /\ minLevel = LevelInfo
    /\ instance = "wt"
    /\ enrichers = <<>>
    /\ writers = ("std" :> StdWriter) @@ ("wt" :> NewWriter("text", FALSE))
                 @@ ("wj" :> NewWriter("json", FALSE))
    /\ scopes = [s \in 1..Siblings |-> NoScope]
    /\ last = NoCall
    /\ callerMap = NoMap
    /\ threads = <<>>

\* the caller's map after WithFields has ranged over it
Kept(f) == [kept |-> TRUE, m |-> f]

\* m := map[string]any{...}; WithFields(m), and m is kept
WithFieldsKept(f) ==
    /\ HasFree
    /\ Chain("WithFields", TRUE, FreeSlot, newScope, LogScopeWithFields(newScope, f), <<f>>)
    /\ callerMap' = Kept(f)

\* the map the caller keeps
KeptMaps == {("k" :> Val("string", <<"x">>))}

NextSiblings ==
    \/ With("k", Val("string", <<"x">>))
    \/ \E f \in KeptMaps : WithFieldsKept(f)
    \/ \E e \in Errors : WithError(e)
    \/ WithContext("req")
    \/ \E args \in GoodPairLists : WithPairs(args)
    \/ \E es \in EnricherLists : NewScopeWithEnrichers(es)
    \/ \E s \in 1..Siblings : ScopeWith(s, "error", Val("error", <<"io">>))
    \/ \E s \in 1..Siblings : ScopeWithContext(s, "req")
    \/ \E s \in 1..Siblings : ScopeInfo(s, Plain)

SpecSiblings == InitSiblings /\ [][NextSiblings]_vars

(***************************************************************************)
(* WithPairs runs: WithPairs called with every short argument list         *)
(***************************************************************************)
\* the arguments given in key positions: two strings and an integer
KeyArgs == {Val("string", <<"k">>), Val("string", <<"error">>), Val("int", <<"7">>)}

\* the arguments given in value positions
ValueArgs == {Val("string", <<"error">>), Val("int", <<"7">>)}

\* every list of up to MaxArgs arguments, of even and of odd length
ArgLists ==
    UNION {{args \in [1..n -> KeyArgs] :
                \A i \in 1..n : i % 2 = 0 => args[i] \in ValueArgs} : n \in 0..MaxArgs}

NextPairs == \E args \in ArgLists : WithPairs(args)

SpecPairs == Init /\ [][NextPairs]_vars

(***************************************************************************)
(* Level registry runs: the level functions applied to drawn inputs        *)
(***************************************************************************)
CallShouldLog(level) ==
    /\ last' = [NoCall EXCEPT !.op = "shouldLog", !.code = level,
                              !.retBool = shouldLog(level)]
    /\ UNCHANGED <<minLevel, instance, enrichers, writers, scopes, threads, callerMap>>

CallParseLevel(level) ==
    /\ last' = [NoCall EXCEPT !.op = "ParseLevel", !.name = level,
                              !.retInt = ParseLevel(level)]
    /\ UNCHANGED <<minLevel, instance, enrichers, writers, scopes, threads, callerMap>>

CallLevelString(level) ==
    /\ last' = [NoCall EXCEPT !.op = "LevelString", !.code = level,
                              !.retStr = LevelString(level)]
    /\ UNCHANGED <<minLevel, instance, enrichers, writers, scopes, threads, callerMap>>

NextLevel ==
    \/ \E level \in Codes : SetLevel(level)
    \/ \E level \in Codes : CallShouldLog(level)
    \/ \E level \in LevelInputs : CallParseLevel(level)
    \/ \E level \in Codes : CallLevelString(level)

SpecLevel == Init /\ [][NextLevel]_vars

(***************************************************************************)
(* Writer runs: Write and Flush called on the writers directly, as the     *)
(* writers' tests do, over sinks that can or cannot be closed              *)
(***************************************************************************)
MessageTexts == {<<"test", "message">>}

\* field sets given to Write: nil, one value of every kind, and mixed ones
WriterFieldMaps ==
    {<<>>}
    \cup {("k" :> Val(t, <<"v">>)) :
            t \in {"string", "int", "error", "map", "chan", "func", "complex64", "complex128"}}
    \cup {("k" :> Val("string", <<"v">>)) @@ ("error" :> Val("chan", <<"v">>)),
          ("k" :> Val("int", <<"7">>)) @@ ("error" :> Val("error", <<"io">>))}

InitWriter ==
    /\ minLevel = LevelInfo
    /\ instance = "std"
    /\ enrichers = <<>>
    /\ \E c1 \in BOOLEAN, c2 \in BOOLEAN :
          writers = ("std" :> StdWriter) @@ ("wt" :> NewWriter("text", c1))
                    @@ ("wj" :> NewWriter("json", c2))
    /\ scopes = [s \in ScopeIds |-> NoScope]
    /\ last = NoCall
    /\ callerMap = NoMap
    /\ threads = <<>>

\* w.Write(level, msg, fields)
WriteCall(w, level, msg, fields) ==
    /\ Written < MaxWrites
    /\ LET r == WriterWrite(writers[w], level, msg, fields)
       IN /\ writers' = [writers EXCEPT ![w] = r.wr]
          /\ last' = [NoCall EXCEPT !.op = "Write", !.level = level,
                        !.events = <<Event("write", w, level, <<>>, msg, "none", fields)>>,
                        !.panicked = r.panic, !.rec = r.rec]
    /\ UNCHANGED <<minLevel, instance, enrichers, scopes, threads, callerMap>>

\* w.Flush()
FlushCall(w) == FlushOf(FALSE, NoScopeId, w)

NextWriter ==
    \/ \E w \in WriterIds, level \in Levels \cup {999}, msg \in MessageTexts,
          fields \in WriterFieldMaps : WriteCall(w, level, msg, fields)
    \/ \E w \in WriterIds : FlushCall(w)

SpecWriter == InitWriter /\ [][NextWriter]_vars

(***************************************************************************)
(* Concurrent runs: goroutines call Write and Flush on one shared writer.  *)
(* Neither writer holds a lock, so the steps of bufio.Writer.Write (the    *)
(* copy into buf[n:], then n += len) and of Flush (write buf[:n] to the    *)
(* sink, then n = 0) interleave.  threads is                               *)
(*   [kind, buf, n, sink, next, g]: the shared writer's format, its bufio  *)
(*   buffer cells, its fill count n, its sink, the next record's serial    *)
(*   number, and per goroutine its position pc, the record it writes, the  *)
(*   chunks copied so far, the value of n it read, and the calls it made.  *)
(***************************************************************************)
Threads == 1..MaxThreads
BufCells == MaxThreads * MaxCalls * RecLen

NoChunk == [id |-> 0, part |-> 0]

IdleThread == [pc |-> "idle", id |-> 0, i |-> 0, pos |-> 0, calls |-> 0]

InitConc ==
    /\ minLevel = LevelInfo
    /\ instance = "std"
    /\ enrichers = <<>>
    /\ writers = ("std" :> StdWriter) @@ ("wt" :> NewWriter("text", FALSE))
                 @@ ("wj" :> NewWriter("json", FALSE))
    /\ scopes = [s \in ScopeIds |-> NoScope]
    /\ last = NoCall
    /\ callerMap = NoMap
    /\ \E kind \in {"text", "json"} :
          threads = [kind |-> kind, buf |-> [c \in 1..BufCells |-> NoChunk], n |-> 0,
                     sink |-> <<>>, next |-> 1, g |-> [t \in Threads |-> IdleThread]]

ConcUnchanged == UNCHANGED <<minLevel, instance, enrichers, writers, scopes, last, callerMap>>

\* Write is called: the record is formatted (Fprintf's own buffer, sonic.Marshal)
\* and bufio.Writer.Write reads n for copy(b.buf[b.n:], p)
WriteBegin(t) ==
    /\ threads.g[t].pc = "idle"
    /\ threads.g[t].calls < MaxCalls
    /\ threads' = [threads EXCEPT !.next = @ + 1,
                     !.g[t] = [pc |-> "copy", id |-> threads.next, i |-> 0,
                               pos |-> threads.n, calls |-> @.calls + 1]]
    /\ ConcUnchanged

\* copy(b.buf[b.n:], p), one chunk
WriteCopy(t) ==
    /\ threads.g[t].pc = "copy"
    /\ LET me == threads.g[t]
       IN threads' = [threads EXCEPT
                        !.buf[me.pos + me.i + 1] = [id |-> me.id, part |-> me.i + 1],
                        !.g[t].i = me.i + 1,
                        !.g[t].pc = IF me.i + 1 = RecLen THEN "load" ELSE "copy"]
    /\ ConcUnchanged

\* b.n += n, the load
WriteLoad(t) ==
    /\ threads.g[t].pc = "load"
    /\ threads' = [threads EXCEPT !.g[t].pos = threads.n, !.g[t].pc = "store"]
    /\ ConcUnchanged

\* b.n += n, the store; Write returns
WriteStore(t) ==
    /\ threads.g[t].pc = "store"
    /\ threads' = [threads EXCEPT !.n = threads.g[t].pos + RecLen,
                                  !.g[t] = [IdleThread EXCEPT !.calls = threads.g[t].calls]]
    /\ ConcUnchanged

\* Flush is called: bufio.Writer.Flush writes b.buf[0:b.n] to the sink
FlushBegin(t) ==
    /\ threads.g[t].pc = "idle"
    /\ threads.g[t].calls < MaxCalls
    /\ threads' = [threads EXCEPT
                     !.sink = @ \o [c \in 1..threads.n |-> threads.buf[c]],
                     !.g[t] = [pc |-> "reset", id |-> 0, i |-> 0, pos |-> threads.n,
                               calls |-> @.calls + 1]]
    /\ ConcUnchanged

\* b.n = 0; Flush returns
FlushReset(t) ==
    /\ threads.g[t].pc = "reset"
    /\ threads' = [threads EXCEPT !.n = 0,
                                  !.g[t] = [IdleThread EXCEPT !.calls = threads.g[t].calls]]
    /\ ConcUnchanged

NextConc ==
    \/ \E t \in Threads : WriteBegin(t)
    \/ \E t \in Threads : WriteCopy(t)
    \/ \E t \in Threads : WriteLoad(t)
    \/ \E t \in Threads : WriteStore(t)
    \/ \E t \in Threads : FlushBegin(t)
    \/ \E t \in Threads : FlushReset(t)

SpecConc == InitConc /\ [][NextConc]_vars

(***************************************************************************)
(* Properties of the level registry (checked under SpecLevel)              *)
(***************************************************************************)
Recognized(code) == code \in {0, 1, 2}

\* C3: shouldLog(code) is false for every code outside {0,1,2} whatever the minimum
\* level is, and for a code in {0,1,2} it is true exactly when code >= minLevel.
C3_ShouldLog ==
    last.op = "shouldLog" =>
        /\ ~Recognized(last.code) => ~last.retBool
        /\ Recognized(last.code) => (last.retBool <=> last.code >= minLevel)

\* an unrecognized code is refused although the minimum was lowered to Debug
C3_Witness ==
    /\ last.op = "shouldLog"
    /\ last.code = 999
    /\ minLevel = LevelDebug
    /\ ~last.retBool

\* C4: SetLevel(code) with a code outside {0,1,2} leaves minLevel unchanged, with a
\* code in {0,1,2} sets minLevel to it; only SetLevel changes minLevel, and each
\* shouldLog call answers by the minLevel in force when it is made.
C4_SetLevel ==
    [][/\ last'.op = "SetLevel" =>
            minLevel' = IF Recognized(last'.code) THEN last'.code ELSE minLevel
       /\ last'.op # "SetLevel" => minLevel' = minLevel
       /\ last'.op = "shouldLog" =>
            (last'.retBool <=> (Recognized(last'.code) /\ last'.code >= minLevel'))]_vars

\* an invalid code was given after the minimum had been moved to Error: it stays
C4_Witness ==
    /\ last.op = "SetLevel"
    /\ ~Recognized(last.code)
    /\ minLevel = LevelError

\* s is a spelling of the word w in some mix of upper and lower case
Spells(s, w) == s \in CaseVariants(w)

\* C5: ParseLevel maps every case variant of "debug", "info", "error" to 0, 1, 2 and
\* every other input, the empty string included, to -1.
C5_ParseLevel ==
    last.op = "ParseLevel" =>
        last.retInt =
            IF Spells(last.name, <<"d", "e", "b", "u", "g">>) THEN 0
            ELSE IF Spells(last.name, <<"i", "n", "f", "o">>) THEN 1
            ELSE IF Spells(last.name, <<"e", "r", "r", "o", "r">>) THEN 2
            ELSE 0 - 1

\* a mixed-case spelling was parsed
C5_Witness ==
    /\ last.op = "ParseLevel"
    /\ last.name = <<"D", "e", "b", "U", "g">>
    /\ last.retInt = 0

\* C6: LevelString gives "DEBUG", "INFO", "ERROR" for 0, 1, 2 and "UNKNOWN" for every
\* other code, so ParseLevel(LevelString(c)) is c for a recognized c and -1 otherwise.
C6_LevelString ==
    last.op = "LevelString" =>
        /\ last.code = 0 => last.retStr = <<"D", "E", "B", "U", "G">>
        /\ last.code = 1 => last.retStr = <<"I", "N", "F", "O">>
        /\ last.code = 2 => last.retStr = <<"E", "R", "R", "O", "R">>
        /\ ~Recognized(last.code) => last.retStr = <<"U", "N", "K", "N", "O", "W", "N">>
        /\ ParseLevel(last.retStr) = IF Recognized(last.code) THEN last.code ELSE 0 - 1

\* the name of an unrecognized code was asked for
C6_Witness ==
    /\ last.op = "LevelString"
    /\ last.code = 999
    /\ last.retStr = Unknown

(***************************************************************************)
(* Properties of scopes (checked under Spec)                               *)
(***************************************************************************)
EmitOps == {"Debug", "Info", "Error"}

\* the scope a call was made on, as it was before the call (in a step, the call is last')
Receiver(c) == IF c.facade THEN newScope ELSE scopes[c.scope]

\* the Write calls among the events of a call
WriteEvents(c) == SelectSeq(c.events, LAMBDA e : e.ev = "write")

\* the field set Error inspects: the one the call's Write received
SeenFields(c, pre) ==
    IF c.events = <<>> THEN pre.fields ELSE c.events[Len(c.events)].fields

\* C1: an emission whose level is below the minimum has no observable effect: no
\* Write, no Enrich, and the scopes (fields, context, writer) and the writers
\* (buffer, sink) are as they were.
C1_BelowMinimum ==
    [][(last'.op \in EmitOps /\ last'.level < minLevel) =>
          /\ last'.events = <<>>
          /\ ~last'.panicked
          /\ last'.rec = NoRecord
          /\ scopes' = scopes
          /\ writers' = writers
          /\ instance' = instance]_vars

\* an Info call was filtered on a scope that has fields and enrichers
C1_Witness ==
    /\ last.op = "Info"
    /\ ~last.facade
    /\ minLevel = LevelError
    /\ scopes[last.scope].enrichers # <<>>
    /\ "k" \in DOMAIN scopes[last.scope].fields
    /\ last.events = <<>>

C8_ErrorWraps ==
    (last.op = "Error" /\ ~last.facade /\ ~last.panicked
     /\ scopes[last.scope].werr # <<>>) =>
        /\ Contains(last.retErr.msg, scopes[last.scope].werr)
        /\ Contains(last.retErr.msg, Sprintf(last.format, last.args))

\* the facade functions that return a scope
CtorOps == {"With", "WithFields", "WithPairs", "WithContext", "WithError"}

\* the calls a call made on writers (Write and Flush), in order
WriterCalls(c) == SelectSeq(c.events, LAMBDA e : e.ev \in {"write", "flush"})

\* C14: after SetWriter(w) every facade call uses w: a scope made by With, WithFields,
\* WithPairs, WithContext or WithError is bound to w, facade Debug/Info/Error write to w
\* and to no other writer, facade Flush flushes w, and w stays the writer in use until
\* the next SetWriter, whose argument then replaces it.
C14_SetWriter ==
    [][/\ last'.op = "SetWriter" => instance' = last'.args[1]
       /\ last'.op # "SetWriter" => instance' = instance
       /\ (last'.facade /\ last'.op \in CtorOps /\ ~last'.panicked) =>
             /\ scopes[last'.scope] = NoScope
             /\ scopes'[last'.scope].writer = instance'
             /\ writers' = writers
       /\ (last'.facade /\ last'.op \in EmitOps \cup {"Flush"}) =>
             /\ \A w \in WriterIds \ {instance'} : writers'[w] = writers[w]
             /\ \A i \in 1..Len(WriterCalls(last')) : WriterCalls(last')[i].who = instance'
             /\ (last'.op = "Flush" \/ last'.level >= minLevel) =>
                   Len(WriterCalls(last')) = 1]_vars

\* the facade wrote a JSON record to the writer installed last, after a text record had
\* gone to the writer installed before it
C14_Witness ==
    /\ last.op = "Info"
    /\ last.facade
    /\ ~last.panicked
    /\ instance = "wj"
    /\ last.rec.kind = "json"
    /\ writers["wj"].n = 1
    /\ writers["wt"].n = 1

\* C21: a scope keeps the writer that was installed when it was created: no call,
\* SetWriter included, changes the writer of a scope that exists; an emission or a
\* Flush on a scope calls that writer and no other, and leaves every other writer as
\* it was, whichever writer is installed by then; the facade Flush calls the writer
\* installed last.
C21_WriterBound ==
    [][/\ \A s \in DOMAIN scopes :
             IF scopes[s] # NoScope
             THEN scopes'[s].writer = scopes[s].writer
             ELSE scopes'[s] # NoScope => scopes'[s].writer = instance
       /\ last'.op = "SetWriter" => scopes' = scopes
       /\ (~last'.facade /\ last'.op \in EmitOps \cup {"Flush"}) =>
             LET bound == scopes[last'.scope].writer
             IN /\ \A w \in WriterIds \ {bound} : writers'[w] = writers[w]
                /\ \A i \in 1..Len(WriterCalls(last')) : WriterCalls(last')[i].who = bound
                /\ (last'.op = "Flush" \/ last'.level >= minLevel) =>
                      Len(WriterCalls(last')) = 1
       /\ (last'.facade /\ last'.op = "Flush") =>
             /\ Len(WriterCalls(last')) = 1
             /\ WriterCalls(last')[1].who = instance'
             /\ \A w \in WriterIds \ {instance'} : writers'[w] = writers[w]]_vars

\* a scope created under the text writer was flushed after the JSON writer had been
\* installed: its record reached the text sink, and the record the facade wrote to the
\* JSON writer is still in that writer's buffer
C21_Witness ==
    /\ last.op = "Flush"
    /\ ~last.facade
    /\ ~last.panicked
    /\ instance = "wj"
    /\ scopes[last.scope].writer = "wt"
    /\ last.events[1].who = "wt"
    /\ Len(writers["wt"].sink) = 1
    /\ writers["wt"].buf = <<>>
    /\ Len(writers["wj"].buf) = 1
    /\ writers["wj"].sink = <<>>

\* C18: an emission at or above the minimum level invokes each enricher attached to
\* the scope exactly once, in attachment order, with the scope's context, the level's
\* name, the formatted message and the field set (as the enrichers before it left it),
\* and only then calls Write, with the field set the last enricher left.
C18_EnrichersInOrder ==
    [][(last'.op \in EmitOps /\ last'.level >= minLevel) =>
          LET c == last'
              pre == Receiver(c)
              n == Len(pre.enrichers)
              ev == c.events
          IN /\ Len(ev) = n + 1
             /\ ev[n + 1].ev = "write"
             /\ \A i \in 1..n :
                   /\ ev[i].ev = "enrich"
                   /\ ev[i].who = pre.enrichers[i]
                   /\ ev[i].ctx = pre.ctx
                   /\ ev[i].lname = levelNames[c.level]
                   /\ ev[i].msg = Sprintf(c.format, c.args)
                   /\ ev[i].fields = IF i = 1 THEN pre.fields
                                     ELSE Enrich(pre.enrichers[i - 1], pre.ctx, ev[i].lname,
                                                 ev[i].msg, ev[i - 1].fields)
             /\ ev[n + 1].fields = IF n = 0 THEN pre.fields
                                   ELSE Enrich(pre.enrichers[n], pre.ctx, ev[n].lname,
                                               ev[n].msg, ev[n].fields)]_vars

\* a scope with two enrichers and a request context emitted an error with an argument:
\* the second enricher saw the key the first had written
C18_Witness ==
    /\ last.op = "Error"
    /\ ~last.facade
    /\ ~last.panicked
    /\ scopes[last.scope].ctx = "req"
    /\ Len(last.events) = 3
    /\ last.events[1].who = "ctxid"
    /\ last.events[2].who = "cause"
    /\ last.events[2].msg = <<"failed:", "bad", "input">>
    /\ last.events[2].lname = <<"E", "R", "R", "O", "R">>
    /\ "k" \notin DOMAIN last.events[1].fields
    /\ last.events[2].fields["k"] = Val("string", <<"req">>)
    /\ last.events[3].fields["error"] = Val("error", CauseText)

\* the keys that are new or hold another value in the field set after
Changed(before, after) ==
    {k \in DOMAIN after : k \notin DOMAIN before \/ after[k] # before[k]}

\* C22: the enrichers of a scope work on the scope's own field set.  In an emission
\* of a scope at or above the minimum level, the first call made (Enrich, or Write
\* for a scope without enrichers) receives the field set the scope held, with all that
\* earlier emissions left in it; every key an enricher added or overwrote is in the
\* field set the scope holds after the call, with the value passed to Write; and the
\* Error call returns what that field set tells: the formatted message wrapped around
\* the error value under "error" when there is one, the plain message otherwise.  No
\* call removes a key from the field set of a scope.
C22_EnrichInPlace ==
    [][/\ \A s \in DOMAIN scopes :
             scopes[s] # NoScope =>
                DOMAIN scopes[s].fields \subseteq DOMAIN scopes'[s].fields
       /\ (~last'.facade /\ last'.op \in EmitOps /\ last'.level >= minLevel) =>
             LET c == last'
                 pre == scopes[c.scope]
                 post == scopes'[c.scope]
                 ev == c.events
                 n == Len(ev)
             IN /\ n = Len(pre.enrichers) + 1
                /\ ev[1].fields = pre.fields
                /\ post.fields = ev[n].fields
                /\ \A i \in 1..(n - 1) :
                      \A k \in Changed(ev[i].fields, ev[i + 1].fields) :
                         /\ k \in DOMAIN post.fields
                         /\ k \in DOMAIN ev[n].fields
                         /\ post.fields[k] = ev[n].fields[k]
                /\ (c.op = "Error" /\ ~c.panicked) =>
                      c.retErr.msg =
                         IF "error" \in DOMAIN post.fields /\ post.fields["error"].t = "error"
                         THEN Sprintf(c.format, c.args) \o <<":">> \o post.fields["error"].v
                         ELSE Sprintf(c.format, c.args)]_vars

\* the second emission of a scope with enrichers, an Error call: the keys the enrichers
\* wrote during the first emission came in with the scope's field set, and the call
\* returned the message wrapped around the error value an enricher had stored
C22_Witness ==
    /\ last.op = "Error"
    /\ ~last.facade
    /\ ~last.panicked
    /\ Len(last.events) = 3
    /\ last.events[1].ev = "enrich"
    /\ "k" \in DOMAIN last.events[1].fields
    /\ "error" \in DOMAIN last.events[1].fields
    /\ last.events[1].fields["error"] = Val("error", CauseText)
    /\ scopes[last.scope].fields["error"] = Val("error", CauseText)
    /\ last.retErr.msg = <<"failed", ":">> \o CauseText
    /\ writers[scopes[last.scope].writer].n = 2

\* C20: starting from the minimum Info, whatever codes SetLevel is given the minimum
\* level is one of 0, 1, 2; so an Error emission is never filtered: every Error call on
\* a scope (or of the facade) reaches the Write of the scope's writer exactly once.
C20_ErrorNeverFiltered ==
    /\ minLevel \in {0, 1, 2}
    /\ last.op = "Error" =>
          /\ Len(WriteEvents(last)) = 1
          /\ last.events[Len(last.events)].ev = "write"
          /\ last.events[Len(last.events)].level = LevelError
          /\ ~last.facade => last.events[Len(last.events)].who = scopes[last.scope].writer

\* an Error call on a scope reached its writer at the highest minimum, after SetLevel
\* had been given codes (the minimum is no longer the initial one)
C20_Witness ==
    /\ last.op = "Error"
    /\ ~last.facade
    /\ ~last.panicked
    /\ minLevel = LevelError
    /\ last.rec.level = <<"E", "R", "R", "O", "R">>
    /\ last.rec.id = writers[scopes[last.scope].writer].n

\* the methods that add to a scope
ChainOps == {"With", "WithFields", "WithError", "WithContext"}

\* the field set old after the writes of upd: upd's value for its keys, old's for the rest
Overwritten(old, upd) ==
    [k \in DOMAIN old \cup DOMAIN upd |-> IF k \in DOMAIN upd THEN upd[k] ELSE old[k]]

\* the writes a With* call asks for
Asked(c) ==
    CASE c.op = "With" -> (c.args[1] :> c.args[2])
      [] c.op = "WithFields" -> c.args[1]
      [] c.op = "WithError" -> ("error" :> Val("string", c.args[1].msg))
      [] OTHER -> <<>>

\* C17: With, WithFields, WithContext and WithError change the scope they are called on
\* in place and return it: after the call that scope's field set has the call's values
\* for the keys the call writes (WithError: the error's message text under "error") and
\* the earlier values for every other key, WithContext changes the context and nothing
\* else, the other three leave the context alone, and no writer or other scope changes.
C17_InPlace ==
    [][last'.op \in ChainOps =>
          LET c == last'
              pre == Receiver(c)
              post == scopes'[c.scope]
          IN /\ c.facade <=> scopes[c.scope] = NoScope
             /\ \A t \in DOMAIN scopes \ {c.scope} : scopes'[t] = scopes[t]
             /\ post.fields = Overwritten(pre.fields, Asked(c))
             /\ post.ctx = IF c.op = "WithContext" THEN c.args[1] ELSE pre.ctx
             /\ post.writer = pre.writer
             /\ post.enrichers = pre.enrichers
             /\ writers' = writers]_vars

\* With wrote an error value over the text WithError had stored, on a scope that keeps
\* its other field
C17_Witness ==
    /\ last.op = "With"
    /\ ~last.facade
    /\ last.args = <<"error", Val("error", <<"io">>)>>
    /\ scopes[last.scope].werr = <<"boom">>
    /\ scopes[last.scope].fields =
          ("k" :> Val("string", <<"x">>)) @@ ("error" :> Val("error", <<"io">>))

\* C16: while the writer the package starts with is in place (SetWriter was never
\* called), a facade emission at or above the minimum level completes without aborting
\* and leaves one text record for standard output, and facade Flush completes without
\* aborting.
C16_DefaultWriter ==
    (last.facade /\ instance = "std") =>
        /\ (last.op \in EmitOps /\ last.level >= minLevel) =>
              /\ ~last.panicked
              /\ last.rec.kind = "text"
              /\ writers["std"].n = last.rec.id
        /\ last.op = "Flush" => ~last.panicked

(***************************************************************************)
(* Properties of sibling scopes (checked under SpecSiblings)               *)
(***************************************************************************)
\* C19: scopes are independent: a With* call or an emission on one scope, and the
\* making of a new scope, leave the field set and the context of every other scope as
\* they were; WithFields(m) copies m, so m is as the caller built it after the call and
\* after every later call on the scope; the scopes share only the writer.
C19_Independent ==
    [][LET c == last'
       IN /\ \A t \in DOMAIN scopes \ {c.scope} :
                /\ scopes'[t].fields = scopes[t].fields
                /\ scopes'[t].ctx = scopes[t].ctx
          /\ IF c.op = "WithFields"
             THEN /\ callerMap' = [kept |-> TRUE, m |-> c.args[1]]
                  /\ scopes'[c.scope].fields = Overwritten(Receiver(c).fields, c.args[1])
             ELSE callerMap' = callerMap
          /\ \A t \in DOMAIN scopes : scopes'[t] # NoScope => scopes'[t].writer = instance
          /\ \A w \in WriterIds \ {instance} : writers'[w] = writers[w]]_vars

\* two scopes made by facade constructors: the first, made by WithFields(m), was then
\* given an "error" field by With; the second, made by WithError, was given a context
\* and emitted; the first still has its context, and m is as the caller built it
C19_Witness ==
    /\ last.op = "Info"
    /\ last.scope = 2
    /\ ~last.panicked
    /\ scopes[2].ctx = "req"
    /\ scopes[2].fields = ("error" :> Val("string", <<"boom">>))
    /\ scopes[1].ctx = "bg"
    /\ scopes[1].fields =
          ("k" :> Val("string", <<"x">>)) @@ ("error" :> Val("error", <<"io">>))
    /\ callerMap.kept
    /\ callerMap.m = ("k" :> Val("string", <<"x">>))
    /\ scopes[1].writer = scopes[2].writer

(***************************************************************************)
(* Properties of WithPairs (checked under SpecPairs)                       *)
(***************************************************************************)
\* the positions of the keys in an argument list
KeyPositions(args) == {i \in 1..Len(args) : i % 2 = 1}

\* an argument list WithPairs refuses: odd length, or a key that is not a string
Malformed(args) ==
    \/ Len(args) % 2 # 0
    \/ \E i \in KeyPositions(args) : args[i].t # "string"

\* the last position at which the key k is given
LastOf(args, k) ==
    CHOOSE i \in KeyPositions(args) :
        /\ KeyOf(args[i]) = k
        /\ \A j \in KeyPositions(args) : KeyOf(args[j]) = k => j <= i

\* C15: WithPairs(args...) aborts without producing a scope when the number of
\* arguments is odd or an argument in a key position is not a string; otherwise it
\* returns a fresh scope whose field set maps each key to the value that follows it, a
\* later duplicate key overwriting an earlier one.
C15_WithPairs ==
    [][last'.op = "WithPairs" =>
          IF Malformed(last'.args)
          THEN /\ last'.panicked
               /\ scopes' = scopes
          ELSE /\ ~last'.panicked
               /\ scopes[last'.scope] = NoScope
               /\ \A t \in DOMAIN scopes \ {last'.scope} : scopes'[t] = scopes[t]
               /\ LET sc == scopes'[last'.scope]
                      args == last'.args
                  IN /\ DOMAIN sc.fields = {KeyOf(args[i]) : i \in KeyPositions(args)}
                     /\ \A k \in DOMAIN sc.fields : sc.fields[k] = args[LastOf(args, k) + 1]
                     /\ sc.writer = instance
                     /\ sc.ctx = "bg"
                     /\ sc.enrichers = <<>>]_vars

\* a key given twice: the scope holds the second value
C15_Witness ==
    /\ last.op = "WithPairs"
    /\ ~last.panicked
    /\ last.args = <<Val("string", <<"k">>), Val("int", <<"7">>),
                     Val("string", <<"k">>), Val("string", <<"error">>)>>
    /\ scopes[last.scope].fields = ("k" :> Val("string", <<"error">>))

(***************************************************************************)
(* Properties of the enricher registry (checked under SpecRegistry)        *)
(***************************************************************************)
\* the enrichers a call invoked, in the order of the calls
Invoked(c) ==
    LET es == SelectSeq(c.events, LAMBDA e : e.ev = "enrich")
    IN [i \in 1..Len(es) |-> es[i].who]

\* a is b with some elements left out
RECURSIVE IsSubseq(_, _)
IsSubseq(a, b) ==
    IF a = <<>> THEN TRUE
    ELSE IF b = <<>> THEN FALSE
    ELSE IF Head(a) = Head(b) THEN IsSubseq(Tail(a), Tail(b))
    ELSE IsSubseq(a, Tail(b))

\* C13: the enrichers given to RegisterEnricher form an append-only chain, and every
\* emission at or above the minimum level invokes each of them, in registration order,
\* before the record is handed to the writer.
C13_GlobalChain ==
    [][/\ \/ enrichers' = enrichers
          \/ \E e \in EnricherIds : enrichers' = Append(enrichers, e)
       /\ (last'.op \in EmitOps /\ last'.level >= minLevel) =>
             /\ IsSubseq(enrichers, Invoked(last'))
             /\ last'.events # <<>>
             /\ last'.events[Len(last'.events)].ev = "write"]_vars

(***************************************************************************)
(* Properties of the writers (checked under SpecWriter)                    *)
(***************************************************************************)
\* the Write call a writer run made last: its writer and its arguments
WriteArgs == last.events[1]

\* a value sonic cannot serialize: a channel, a function or a complex number
Unserializable(value) == value.t \in {"chan", "func", "complex64", "complex128"}

\* C10: in JSON mode a Write whose record cannot be serialized does not abort; it
\* emits exactly one record, whose "error" field contains "failed to marshal log entry".
C10_JsonDegrades ==
    (/\ last.op = "Write"
     /\ writers[WriteArgs.who].kind = "json"
     /\ \E k \in DOMAIN WriteArgs.fields : Unserializable(WriteArgs.fields[k])) =>
        /\ ~last.panicked
        /\ last.rec # NoRecord
        /\ last.rec.id = writers[WriteArgs.who].n
        /\ "error" \in DOMAIN last.rec.fields
        /\ Contains(last.rec.fields["error"].v,
                    <<"failed", "to", "marshal", "log", "entry">>)

\* a value the text renderer refuses: a complex number, a channel or a function
Unsupported(value) == value.t \in {"complex64", "complex128", "chan", "func"}

Flushed == last.events[1].who

\* C12: for any sequence of Write and Flush calls on one writer built by a constructor
\* (text or JSON), over a sink that may or may not support close, no Flush aborts, and
\* after each Flush every record written before it is in the sink, exactly once and in
\* Write order.
C12_FlushDelivers ==
    (last.op = "Flush" /\ writers[Flushed].hasBuf) =>
        /\ ~last.panicked
        /\ writers[Flushed].buf = <<>>
        /\ writers[Flushed].sink =
              [i \in 1..writers[Flushed].n |-> [id |-> i, kind |-> writers[Flushed].kind]]

(***************************************************************************)
(* Properties of concurrent use (checked under SpecConc)                   *)
(***************************************************************************)
\* goroutine t is between the first and the last access to the buffer of a call
InSection(t) == threads.g[t].pc # "idle"

\* what the writer has delivered and holds: the sink, then the filled buffer cells
Output == threads.sink \o [c \in 1..threads.n |-> threads.buf[c]]

\* out is a sequence of whole records: every record's chunks, in order and together
WholeRecords(out) ==
    /\ Len(out) % RecLen = 0
    /\ \A c \in 1..Len(out) :
          /\ out[c].id # 0
          /\ out[c].part = ((c - 1) % RecLen) + 1
          /\ out[c].id = out[c - ((c - 1) % RecLen)].id

\* C9: Write and Flush are serialized inside the writer: no two calls are in the
\* buffer-mutating section together, and the bytes of one record are never
\* interleaved with those of another.
C9_Serialized ==
    /\ Cardinality({t \in Threads : InSection(t)}) <= 1
    /\ WholeRecords(Output)

====
